---- MODULE Spec2Model ----
(***************************************************************************)
(* Model of the voice-insight backend: the Call / Transcript / Insight     *)
(* store (app/crud.py), the upload store on disk and the /calls routes     *)
(* (app/api/routes/calls.py).                                              *)
(*                                                                         *)
(* Spec         request handlers run one at a time (each handler one step) *)
(* SpecWorkers  two sessions that read a call and then write its status    *)
(* SpecBulk     create_many split at its commit, with concurrent readers   *)
(* SpecDelete   delete_call split at its awaits, two concurrent requests   *)
(***************************************************************************)
EXTENDS Integers, Sequences, FiniteSets, TLC

VARIABLES
    calls,        \* table call: id -> row
    nextId,       \* next value of the call.id sequence
    now,          \* clock that stamps created_at
    transcripts,  \* table transcript: set of rows
    insights,     \* table insight: set of rows
    batches,      \* bookkeeping: every create_many call issued so far
    blobs,        \* files present under settings.UPLOAD_PATH
    nextUuid,     \* number of uuid4() names drawn so far
    jobQueue,     \* the job queue (call ids waiting for processing)
    sess,         \* per session (request / worker): position and loaded objects
    hist,         \* bookkeeping: committed status writes, in commit order
    request,      \* bookkeeping: the last step's arguments and what its I/O met
    response      \* what the last step returned or raised

vars == <<calls, nextId, now, transcripts, insights, batches, blobs, nextUuid,
          jobQueue, sess, hist, request, response>>

-----------------------------------------------------------------------------
(* Bounds of the model *)

MaxCalls == 2
MaxUploads == 3
MaxBatches == 2
MaxBatchSize == 2
MaxHist == 3

(* settings.MAX_UPLOAD_SIZE = 100 * 1024 * 1024 *)
MAX_UPLOAD_SIZE == 104857600

ALLOWED_AUDIO_EXTENSIONS == {".mp3", ".wav", ".m4a", ".ogg", ".flac"}

\* Optional values: None is the empty set, a present value v is {v}.
None == {}
Some(v) == {v}

(* The members of app.models.CallStatus *)
CallStatus == {"UPLOADED", "TRANSCRIBING", "ANALYZING", "COMPLETED", "FAILED"}

(* The two sessions of the concurrent specifications *)
Procs == {1, 2}

-----------------------------------------------------------------------------
(* Inputs *)

\* Uploaded file names as <<stem, suffix>>; <<"", "">> is a missing filename.
FileNames == {<<"a", ".wav">>, <<"b", ".MP3">>, <<"c", ".txt">>, <<"", "">>}

\* len(contents) of an upload: the 2 MB of the scenario, the limit, one above it.
FileSizes == {2097152, MAX_UPLOAD_SIZE, MAX_UPLOAD_SIZE + 1}

ErrorArgs == {None, Some("transcription failed")}
DurationArgs == {None, Some(30)}

\* Path(name).suffix
Suffix(name) == name[2]

\* str.lower() on the suffixes that occur
Lower(s) ==
    CASE s = ".MP3" -> ".mp3"
      [] s = ".WAV" -> ".wav"
      [] OTHER -> s

-----------------------------------------------------------------------------
(* The stores *)

EmptyTable == [i \in {} |-> None]

IdleSess == [pc |-> "idle", id |-> 0, obj |-> None, pending |-> {}, batch |-> 0]

NoRequest == [op |-> "none"]

\* code is the HTTP status of a finished request and 0 otherwise; raised is
\* the exception a CRUD operation ended with.
NoResponse == [code |-> 0]

Init ==
    /\ calls = EmptyTable
    /\ nextId = 1
    /\ now = 0
    /\ transcripts = {}
    /\ insights = {}
    /\ batches = EmptyTable
    /\ blobs = {}
    /\ nextUuid = 0
    /\ jobQueue = << >>
    /\ sess = [p \in Procs |-> IdleSess]
    /\ hist = << >>
    /\ request = NoRequest
    /\ response = NoResponse

-----------------------------------------------------------------------------
(* app/crud.py, as operators on the tables *)

Min(a, b) == IF a <= b THEN a ELSE b

\* CRUDCall.create: the row of a new Call; error_message and duration_seconds
\* are not passed and take the column default.
NewCall(id, t, filename, original_filename, file_path, file_size) ==
    [id |-> id,
     filename |-> filename,
     original_filename |-> original_filename,
     file_path |-> file_path,
     file_size |-> file_size,
     status |-> "UPLOADED",
     error_message |-> None,
     duration_seconds |-> None,
     created_at |-> t]

\* session.add(call); commit
InsertCall(cs, row) ==
    [i \in DOMAIN cs \cup {row.id} |-> IF i = row.id THEN row ELSE cs[i]]

\* CRUDCall.get
CRUDCall_get(cs, id) == IF id \in DOMAIN cs THEN Some(cs[id]) ELSE None

\* Transcript / Insight rows of one call
RowsOf(rows, id) == {r \in rows : r.call_id = id}

\* CRUDCall.get_with_details: the call with both collections loaded
CRUDCall_get_with_details(cs, ts, ins, id) ==
    IF id \in DOMAIN cs
    THEN Some([call |-> cs[id],
               transcripts |-> RowsOf(ts, id),
               insights |-> RowsOf(ins, id)])
    ELSE None

\* WHERE call.status = :status, when a status filter is given
Matching(cs, status) ==
    {i \in DOMAIN cs : status = None \/ Some(cs[i].status) = status}

\* All arrangements of the ids in S
Orderings(S) ==
    {q \in [1..Cardinality(S) -> S] :
        \A i, j \in 1..Cardinality(S) : i # j => q[i] # q[j]}

\* ORDER BY call.created_at DESC: rows with equal created_at come in any order
OrderByCreatedDesc(cs, S) ==
    {q \in Orderings(S) :
        \A i \in 1..(Cardinality(S) - 1) :
            cs[q[i]].created_at >= cs[q[i + 1]].created_at}

\* OFFSET skip LIMIT limit
OffsetLimit(q, skip, limit) == SubSeq(q, skip + 1, Min(Len(q), skip + limit))

\* CRUDCall.get_multi: the lists the query may return
CRUDCall_get_multi(cs, skip, limit, status) ==
    {[k \in DOMAIN OffsetLimit(q, skip, limit) |-> cs[OffsetLimit(q, skip, limit)[k]]] :
        q \in OrderByCreatedDesc(cs, Matching(cs, status))}

\* A count that forgets the status filter
CountAllCalls(cs, status) == Cardinality(DOMAIN cs)

\* CRUDCall.count
CRUDCall_count(cs, status) == Cardinality(Matching(cs, status))

\* CRUDCall.update_status, on the loaded Call object
CRUDCall_update_status(call, status, error_message, duration_seconds) ==
    [call EXCEPT
        !.status = status,
        !.error_message = IF error_message # None THEN error_message ELSE @,
        !.duration_seconds = IF duration_seconds # None THEN duration_seconds ELSE @]

\* A delete that is never committed
DeleteNotCommitted(cs, id) == cs

\* session.delete(call); commit: the call row
DeleteCallRow(cs, id) == [i \in DOMAIN cs \ {id} |-> cs[i]]

\* ON DELETE cascade of transcript.call_id / insight.call_id
CascadeDelete(rows, id) == {r \in rows : r.call_id # id}

\* The objects create_many builds from its list argument
BatchRows(call_id, batch, n) ==
    {[call_id |-> call_id, batch |-> batch, idx |-> k] : k \in 1..n}

\* A commit after every row: the rows before the failing one stay
CommitEachRow(table, rows, failAt) ==
    table \cup {r \in rows : failAt = 0 \/ r.idx < failAt}

\* session.add_all(rows); commit: one transaction. failAt = 0 is a commit that
\* succeeds, failAt = k > 0 one that fails while inserting the k-th row.
CommitAll(table, rows, failAt) ==
    IF failAt = 0 THEN table \cup rows ELSE table

-----------------------------------------------------------------------------
(* app/api/routes/calls.py: each handler as one step *)

Respond(req, res) == request' = req /\ response' = res

\* Outcomes of open(file_path, "wb") / f.write(contents)
WriteOutcomes == {"ok", "open_failed", "write_failed"}

\* Outcomes of session.commit()
CommitOutcomes == {"ok", "failed"}

\* Outcomes of os.remove(call.file_path)
RemoveOutcomes == {"ok", "OSError"}

\* The except clause of upload_call: whatever was raised inside the try block
\* (the 413 HTTPException included) is caught as Exception, and the handler
\* then evaluates HTTPException(status_code=500, details=...). HTTPException
\* has no parameter "details", so that raises TypeError and the request ends
\* as an internal server error.
SaveFileError(raised) == 500

\* POST /calls/. tick is the time passed since the previous Call was stamped:
\* created_at may tie with it (0) or be later (1).
upload_call(name, size, write, commit, tick) ==
    LET file_ext == Lower(Suffix(name))
        unique_filename == <<nextUuid + 1, file_ext>>
        file_path == unique_filename
        call == NewCall(nextId, now + tick, unique_filename, name, file_path, size)
        req == [op |-> "upload_call", name |-> name, size |-> size]
    IN
    /\ UNCHANGED <<transcripts, insights, batches, jobQueue, sess, hist>>
    /\ IF file_ext \notin ALLOWED_AUDIO_EXTENSIONS THEN
          /\ Respond(req, [code |-> 415])
          /\ UNCHANGED <<calls, nextId, now, blobs, nextUuid>>
       ELSE IF size > MAX_UPLOAD_SIZE THEN
          /\ Respond(req, [code |-> SaveFileError(413)])
          /\ UNCHANGED <<calls, nextId, now, blobs, nextUuid>>
       ELSE IF write = "open_failed" THEN
          /\ Respond(req, [code |-> SaveFileError("OSError")])
          /\ UNCHANGED <<calls, nextId, now, blobs, nextUuid>>
       ELSE
          /\ nextUuid < MaxUploads
          /\ nextUuid' = nextUuid + 1
          /\ blobs' = blobs \cup {file_path}
          /\ IF write = "write_failed" THEN
                /\ Respond(req, [code |-> SaveFileError("OSError")])
                /\ UNCHANGED <<calls, nextId, now>>
             ELSE IF commit = "failed" THEN
                /\ Respond(req, [code |-> 500])
                /\ UNCHANGED <<calls, nextId, now>>
             ELSE
                /\ nextId <= MaxCalls
                /\ calls' = InsertCall(calls, call)
                /\ nextId' = nextId + 1
                /\ now' = now + tick
                /\ Respond(req, [code |-> 200,
                                 call_id |-> call.id,
                                 filename |-> call.original_filename,
                                 status |-> call.status])

\* Query(0, ge=0) and Query(20, ge=1, le=100)
ValidPage(skip, limit) == skip >= 0 /\ limit >= 1 /\ limit <= 100

\* GET /calls/
list_calls(skip, limit, status) ==
    LET req == [op |-> "list_calls", skip |-> skip, limit |-> limit,
                status |-> status]
    IN
    /\ UNCHANGED <<calls, nextId, now, transcripts, insights, batches, blobs,
                   nextUuid, jobQueue, sess, hist>>
    /\ IF ~ValidPage(skip, limit) THEN
          Respond(req, [code |-> 422])
       ELSE
          \E page \in CRUDCall_get_multi(calls, skip, limit, status) :
              Respond(req, [code |-> 200,
                            calls |-> page,
                            total |-> CRUDCall_count(calls, status),
                            skip |-> skip, limit |-> limit])

\* GET /calls/{call_id}
get_call(call_id) ==
    LET call == CRUDCall_get_with_details(calls, transcripts, insights, call_id)
        req == [op |-> "get_call", call_id |-> call_id]
    IN
    /\ UNCHANGED <<calls, nextId, now, transcripts, insights, batches, blobs,
                   nextUuid, jobQueue, sess, hist>>
    /\ IF call = None
       THEN Respond(req, [code |-> 404])
       ELSE Respond(req, [code |-> 200, body |-> call])

\* GET /calls/{call_id}/status
get_call_status(call_id) ==
    LET call == CRUDCall_get(calls, call_id)
        req == [op |-> "get_call_status", call_id |-> call_id]
    IN
    /\ UNCHANGED <<calls, nextId, now, transcripts, insights, batches, blobs,
                   nextUuid, jobQueue, sess, hist>>
    /\ IF call = None
       THEN Respond(req, [code |-> 404])
       ELSE \E c \in call :
              Respond(req, [code |-> 200,
                            call_id |-> c.id, status |-> c.status,
                            error_message |-> c.error_message])

\* The files left once delete_call has passed its "Delete audio file" block
RemoveBlob(files, file_path, remove) ==
    IF file_path \in files /\ remove = "ok" THEN files \ {file_path} ELSE files

\* What the "Delete audio file" block met
BlobStep(files, file_path, remove) ==
    IF file_path \notin files THEN "absent"
    ELSE IF remove = "ok" THEN "removed" ELSE "OSError"

\* delete_call without its try/except around os.remove
DeleteStatusUncaught(blob, commit) ==
    IF blob = "OSError" \/ commit # "ok" THEN 500 ELSE 200

\* The status delete_call ends with once the call was found: OSError is
\* swallowed, an exception of call_crud.delete is not.
DeleteStatus(blob, commit) == IF commit = "ok" THEN 200 ELSE 500

\* DELETE /calls/{call_id}
delete_call(call_id, remove, commit) ==
    LET call == CRUDCall_get(calls, call_id) IN
    /\ UNCHANGED <<nextId, now, batches, nextUuid, jobQueue, sess, hist>>
    /\ IF call = None THEN
          /\ Respond([op |-> "delete_call", call_id |-> call_id,
                      blob |-> "none", commit |-> "none"],
                     [code |-> 404])
          /\ UNCHANGED <<calls, transcripts, insights, blobs>>
       ELSE
          \E c \in call :
            LET blob == BlobStep(blobs, c.file_path, remove) IN
            /\ blobs' = RemoveBlob(blobs, c.file_path, remove)
            /\ IF commit = "ok" THEN
                  /\ calls' = DeleteCallRow(calls, call_id)
                  /\ transcripts' = CascadeDelete(transcripts, call_id)
                  /\ insights' = CascadeDelete(insights, call_id)
               ELSE
                  UNCHANGED <<calls, transcripts, insights>>
            /\ Respond([op |-> "delete_call", call_id |-> call_id,
                        blob |-> blob, commit |-> commit],
                       [code |-> DeleteStatus(blob, commit)])

-----------------------------------------------------------------------------
(* The CRUD operations no route calls yet, each as one step *)

\* call_crud.update_status on a call loaded with call_crud.get
update_status(id, status, error_message, duration_seconds) ==
    /\ id \in DOMAIN calls
    /\ calls' = [calls EXCEPT
                    ![id] = CRUDCall_update_status(@, status, error_message,
                                                   duration_seconds)]
    /\ Respond([op |-> "update_status", call_id |-> id, status |-> status,
                error_message |-> error_message,
                duration_seconds |-> duration_seconds],
               [code |-> 0, raised |-> None])
    /\ UNCHANGED <<nextId, now, transcripts, insights, batches, blobs, nextUuid,
                   jobQueue, sess, hist>>

\* FOREIGN KEY (call_id) REFERENCES call: the insert fails for a missing call
ForeignKeyFailAt(cs, call_id, n, failAt) ==
    IF call_id \notin DOMAIN cs /\ n > 0 /\ failAt = 0 THEN 1 ELSE failAt

\* Bookkeeping of one create_many call: what it was given and how it ended
BatchRecord(kind, call_id, n, state, failAt) ==
    [kind |-> kind, call_id |-> call_id, n |-> n, state |-> state,
     failAt |-> failAt]

EndState(failAt) == IF failAt = 0 THEN "committed" ELSE "failed"

NewBatch(rec) ==
    LET b == Cardinality(DOMAIN batches) + 1 IN
    [i \in DOMAIN batches \cup {b} |-> IF i = b THEN rec ELSE batches[i]]

\* transcript_crud.create_many / insight_crud.create_many
create_many(kind, call_id, n, failAt) ==
    LET b == Cardinality(DOMAIN batches) + 1
        rows == BatchRows(call_id, b, n)
        f == ForeignKeyFailAt(calls, call_id, n, failAt)
    IN
    /\ b <= MaxBatches
    /\ batches' = NewBatch(BatchRecord(kind, call_id, n, EndState(f), f))
    /\ IF kind = "transcript"
       THEN transcripts' = CommitAll(transcripts, rows, f) /\ UNCHANGED insights
       ELSE insights' = CommitAll(insights, rows, f) /\ UNCHANGED transcripts
    /\ Respond([op |-> "create_many", kind |-> kind, call_id |-> call_id,
                batch |-> b],
               [code |-> 0, raised |-> IF f = 0 THEN None ELSE Some("DBAPIError")])
    /\ UNCHANGED <<calls, nextId, now, blobs, nextUuid, jobQueue, sess, hist>>

-----------------------------------------------------------------------------
(* Spec: uploads, polls and deletes, served one at a time *)

CallIds == 1..(MaxCalls + 1)

Next ==
    \/ \E name \in FileNames, size \in FileSizes,
          write \in WriteOutcomes, commit \in CommitOutcomes :
          upload_call(name, size, write, commit, 1)
    \/ \E id \in CallIds : get_call_status(id)
    \/ \E id \in CallIds, remove \in RemoveOutcomes, commit \in CommitOutcomes :
          delete_call(id, remove, commit)

Spec == Init /\ [][Next]_vars

\* C3: every successful upload_call creates exactly one Call, in status
\* UPLOADED, with file_size the number of uploaded bytes and error_message and
\* duration_seconds unset, and leaves a job for that call in the job queue.
C3_UploadCreatesCallAndEnqueuesJob ==
    [][(request'.op = "upload_call" /\ response'.code = 200) =>
          LET id == response'.call_id IN
          /\ id \notin DOMAIN calls
          /\ DOMAIN calls' = DOMAIN calls \cup {id}
          /\ \A i \in DOMAIN calls : calls'[i] = calls[i]
          /\ calls'[id].status = "UPLOADED"
          /\ calls'[id].file_size = request'.size
          /\ calls'[id].error_message = None
          /\ calls'[id].duration_seconds = None
          /\ \E k \in DOMAIN jobQueue' : jobQueue'[k] = id]_vars

\* C6: an upload with a file extension outside the allowed set ends as 415, one
\* above MAX_UPLOAD_SIZE as 413, and neither creates a Call nor writes a file.
C6_InvalidUploadRejectedWithoutEffect ==
    [][request'.op = "upload_call" =>
          LET ext == Lower(Suffix(request'.name)) IN
          /\ ext \notin ALLOWED_AUDIO_EXTENSIONS =>
                response'.code = 415 /\ calls' = calls /\ blobs' = blobs
          /\ (ext \in ALLOWED_AUDIO_EXTENSIONS /\ request'.size > MAX_UPLOAD_SIZE) =>
                response'.code = 413 /\ calls' = calls /\ blobs' = blobs]_vars

-----------------------------------------------------------------------------
(* SpecStatus: status updates on uploaded calls, one at a time *)

NextStatus ==
    \/ upload_call(<<"a", ".wav">>, 2097152, "ok", "ok", 1)
    \/ \E id \in CallIds, status \in CallStatus,
          e \in ErrorArgs, d \in DurationArgs :
          update_status(id, status, e, d)
    \/ \E id \in CallIds : get_call_status(id)

SpecStatus == Init /\ [][NextStatus]_vars

\* C1: every Call has an error_message if and only if its status is FAILED.
C1_ErrorMessageIffFailed ==
    \A id \in DOMAIN calls :
        (calls[id].error_message # None) <=> (calls[id].status = "FAILED")

\* The transition graph of the Call state machine (spec section 4.1)
AllowedTransitions ==
    {<<"UPLOADED", "TRANSCRIBING">>, <<"TRANSCRIBING", "ANALYZING">>,
     <<"TRANSCRIBING", "FAILED">>, <<"ANALYZING", "COMPLETED">>,
     <<"ANALYZING", "FAILED">>, <<"FAILED", "TRANSCRIBING">>}

\* C2: a status change along a pair outside the transition graph is rejected
\* with InvalidTransition and leaves status, error_message and
\* duration_seconds of the call as they were.
C2_InvalidTransitionRejected ==
    [][request'.op = "update_status" =>
          LET id == request'.call_id IN
          <<calls[id].status, request'.status>> \notin AllowedTransitions =>
              /\ response'.raised = Some("InvalidTransition")
              /\ calls'[id].status = calls[id].status
              /\ calls'[id].error_message = calls[id].error_message
              /\ calls'[id].duration_seconds = calls[id].duration_seconds]_vars

-----------------------------------------------------------------------------
(* SpecList: listings over calls of any status and of equal or distinct age *)

StatusFilters == {None, Some("UPLOADED"), Some("FAILED"), Some("COMPLETED")}

NextList ==
    \/ \E tick \in {0, 1} : upload_call(<<"a", ".wav">>, 2097152, "ok", "ok", tick)
    \/ \E id \in CallIds, status \in {"TRANSCRIBING", "FAILED"} :
          update_status(id, status, None, None)
    \/ \E skip \in -1..MaxCalls, limit \in {0, 1, 2, 100, 101},
          status \in StatusFilters :
          list_calls(skip, limit, status)

SpecList == Init /\ [][NextList]_vars

\* C9: a listing with filter S, skip k and limit n returns only calls of
\* status S (all calls without a filter), newest first, at most n of them,
\* being positions k+1..k+n of a newest-first arrangement of all calls of
\* status S, and its total is the number of all calls of status S.
C9_ListIsPageOfFilteredNewestFirst ==
    (request.op = "list_calls" /\ response.code = 200) =>
        LET S == request.status
            k == request.skip
            n == request.limit
            page == response.calls
            F == {i \in DOMAIN calls : S = None \/ S = {calls[i].status}}
            size == Cardinality(F)
        IN
        /\ \A x \in DOMAIN page :
              /\ page[x].id \in F
              /\ page[x] = calls[page[x].id]
        /\ \A x, y \in DOMAIN page :
              x < y => page[x].created_at >= page[y].created_at
        /\ Len(page) <= n
        /\ Len(page) = Cardinality({pos \in (k + 1)..(k + n) : pos <= size})
        /\ \E q \in [1..size -> F] :
              /\ \A i \in F : \E pos \in 1..size : q[pos] = i
              /\ \A x, y \in 1..size :
                    x < y => calls[q[x]].created_at >= calls[q[y]].created_at
              /\ \A x \in DOMAIN page : page[x].id = q[k + x]
        /\ response.total = size

\* A filtered listing that starts behind the newest match and is cut by its limit
C9_Witness ==
    /\ request.op = "list_calls"
    /\ response.code = 200
    /\ request.status # None
    /\ request.skip = 1
    /\ request.limit = 1
    /\ Len(response.calls) = 1
    /\ response.total = 2
    /\ request.status = Some("FAILED")

-----------------------------------------------------------------------------
(* SpecCascade: calls that own transcripts and insights, and their deletion *)

NextCascade ==
    \/ upload_call(<<"a", ".wav">>, 2097152, "ok", "ok", 1)
    \/ \E id \in CallIds, status \in CallStatus :
          update_status(id, status, None, None)
    \/ \E kind \in {"transcript", "insight"}, id \in DOMAIN calls :
          create_many(kind, id, MaxBatchSize, 0)
    \/ \E id \in CallIds : delete_call(id, "ok", "ok")

SpecCascade == Init /\ [][NextCascade]_vars

\* C4: once delete_call has succeeded for a call id, the Call row is gone and
\* no Transcript and no Insight of that call remains; the Transcripts and
\* Insights of the other calls are what they were.
C4_DeleteRemovesCallAndChildren ==
    [][(request'.op = "delete_call" /\ response'.code = 200) =>
          LET id == request'.call_id IN
          /\ id \notin DOMAIN calls'
          /\ Cardinality({t \in transcripts' : t.call_id = id}) = 0
          /\ Cardinality({i \in insights' : i.call_id = id}) = 0
          /\ {t \in transcripts' : t.call_id # id}
                = {t \in transcripts : t.call_id # id}
          /\ {i \in insights' : i.call_id # id}
                = {i \in insights : i.call_id # id}]_vars

\* A call that had been given rows has been deleted, while another call still
\* owns the rows it was given.
C4_Witness ==
    /\ request.op = "delete_call"
    /\ response.code = 200
    /\ \E b \in DOMAIN batches :
          /\ batches[b].call_id = request.call_id
          /\ batches[b].state = "committed"
    /\ \E r \in transcripts \cup insights : r.call_id # request.call_id

-----------------------------------------------------------------------------
(* SpecBlob: deletions whose file removal or database delete may fail *)

NextBlob ==
    \/ upload_call(<<"a", ".wav">>, 2097152, "ok", "ok", 1)
    \/ \E kind \in {"transcript", "insight"}, id \in DOMAIN calls :
          create_many(kind, id, MaxBatchSize, 0)
    \/ \E id \in CallIds, remove \in RemoveOutcomes, commit \in CommitOutcomes :
          delete_call(id, remove, commit)

SpecBlob == Init /\ [][NextBlob]_vars

\* C5: when the audio file of a call is already absent, or removing it fails,
\* delete_call still deletes the Call row and its children and returns
\* success: with the database delete committing, the request ends as 200
\* whatever the file removal met.
C5_BlobRemovalIsBestEffort ==
    (/\ request.op = "delete_call"
     /\ request.blob \in {"absent", "OSError"}
     /\ request.commit = "ok") =>
        /\ response.code = 200
        /\ request.call_id \notin DOMAIN calls
        /\ RowsOf(transcripts, request.call_id) = {}
        /\ RowsOf(insights, request.call_id) = {}

\* A delete whose os.remove raised OSError: the row and its children are gone,
\* the file is still there, and the request succeeded.
C5_Witness ==
    /\ request.op = "delete_call"
    /\ request.blob = "OSError"
    /\ response.code = 200
    /\ request.call_id \notin DOMAIN calls
    /\ \E b \in DOMAIN batches :
          batches[b].call_id = request.call_id /\ batches[b].state = "committed"

\* A delete that found the audio file already absent and succeeded
C5_WitnessAbsent ==
    /\ request.op = "delete_call"
    /\ request.blob = "absent"
    /\ response.code = 200

-----------------------------------------------------------------------------
(* SpecWorkers: two sessions that each load a call and then write its status *)

Columns == {"status", "error_message", "duration_seconds"}

\* The UPDATE the flush of update_status emits: the columns whose value on the
\* session's object differs from the value it was loaded with, written over
\* the row as it is in the table now.
FlushUpdate(row, loaded, changed) ==
    [c \in DOMAIN row |->
        IF c \in Columns /\ changed[c] # loaded[c] THEN changed[c] ELSE row[c]]

\* call_crud.get in session p
WorkerGet(p, id) ==
    /\ sess[p].pc = "idle"
    /\ id \in DOMAIN calls
    /\ sess' = [sess EXCEPT ![p] = [@ EXCEPT !.pc = "loaded", !.id = id,
                                             !.obj = CRUDCall_get(calls, id)]]
    /\ Respond([op |-> "get", session |-> p, call_id |-> id], [code |-> 0, raised |-> None])
    /\ UNCHANGED <<calls, nextId, now, transcripts, insights, batches, blobs,
                   nextUuid, jobQueue, hist>>

\* call_crud.update_status in session p, on the object the session holds;
\* session.refresh leaves the session with the committed row.
WorkerUpdateStatus(p, status, error_message, duration_seconds) ==
    /\ sess[p].pc = "loaded"
    /\ Len(hist) < MaxHist
    /\ \E loaded \in sess[p].obj :
         LET id == loaded.id
             changed == CRUDCall_update_status(loaded, status, error_message,
                                               duration_seconds)
             row == FlushUpdate(calls[id], loaded, changed)
         IN
         /\ calls' = [calls EXCEPT ![id] = row]
         /\ sess' = [sess EXCEPT ![p] = [@ EXCEPT !.obj = Some(row)]]
         /\ hist' = Append(hist, [call_id |-> id, session |-> p,
                                  observed |-> loaded.status,
                                  before |-> calls[id].status,
                                  after |-> row.status])
         /\ Respond([op |-> "update_status", session |-> p, call_id |-> id,
                     status |-> status, error_message |-> error_message,
                     duration_seconds |-> duration_seconds],
                    [code |-> 0, raised |-> None])
    /\ UNCHANGED <<nextId, now, transcripts, insights, batches, blobs, nextUuid,
                   jobQueue>>

\* The session of p ends (get_db closes it)
WorkerClose(p) ==
    /\ sess[p].pc = "loaded"
    /\ sess' = [sess EXCEPT ![p] = IdleSess]
    /\ Respond([op |-> "close", session |-> p], [code |-> 0, raised |-> None])
    /\ UNCHANGED <<calls, nextId, now, transcripts, insights, batches, blobs,
                   nextUuid, jobQueue, hist>>

NextWorkers ==
    \/ upload_call(<<"a", ".wav">>, 2097152, "ok", "ok", 1)
    \/ \E p \in Procs, id \in CallIds : WorkerGet(p, id)
    \/ \E p \in Procs, status \in {"TRANSCRIBING", "ANALYZING", "FAILED"} :
          WorkerUpdateStatus(p, status,
                             IF status = "FAILED" THEN Some("transcription failed")
                                                  ELSE None,
                             None)
    \/ \E p \in Procs : WorkerClose(p)

SpecWorkers == Init /\ [][NextWorkers]_vars

\* C7: status transitions of one call are serialized: every committed status
\* write was made on the status its writer had read, so the committed history
\* of a call is one chain with no write applied on a stale status.
C7_TransitionsSerialized ==
    \A k \in DOMAIN hist : hist[k].observed = hist[k].before

-----------------------------------------------------------------------------
(* SpecBulk: create_many split at its commit, beside readers of the tables *)

\* create_many up to session.add_all: the rows are pending in session p
BulkAddAll(p, kind, call_id, n) ==
    LET b == Cardinality(DOMAIN batches) + 1 IN
    /\ sess[p].pc = "idle"
    /\ b <= MaxBatches
    /\ batches' = NewBatch(BatchRecord(kind, call_id, n, "pending", 0))
    /\ sess' = [sess EXCEPT ![p] = [@ EXCEPT !.pc = "added", !.id = call_id,
                                             !.batch = b,
                                             !.pending = BatchRows(call_id, b, n)]]
    /\ Respond([op |-> "add_all", session |-> p, kind |-> kind,
                call_id |-> call_id, batch |-> b],
               [code |-> 0, raised |-> None])
    /\ UNCHANGED <<calls, nextId, now, transcripts, insights, blobs, nextUuid,
                   jobQueue, hist>>

\* create_many from session.commit on: the pending rows are inserted in one
\* transaction, which commits or is rolled back
BulkCommit(p, failAt) ==
    LET b == sess[p].batch
        kind == batches[b].kind
        f == ForeignKeyFailAt(calls, sess[p].id, batches[b].n, failAt)
    IN
    /\ sess[p].pc = "added"
    /\ failAt <= batches[b].n
    /\ batches' = [batches EXCEPT ![b] = [@ EXCEPT !.state = EndState(f),
                                                   !.failAt = f]]
    /\ IF kind = "transcript"
       THEN /\ transcripts' = CommitAll(transcripts, sess[p].pending, f)
            /\ UNCHANGED insights
       ELSE /\ insights' = CommitAll(insights, sess[p].pending, f)
            /\ UNCHANGED transcripts
    /\ sess' = [sess EXCEPT ![p] = IdleSess]
    /\ Respond([op |-> "create_many", kind |-> kind, call_id |-> sess[p].id,
                batch |-> b],
               [code |-> 0, raised |-> IF f = 0 THEN None ELSE Some("DBAPIError")])
    /\ UNCHANGED <<calls, nextId, now, blobs, nextUuid, jobQueue, hist>>

\* get_with_details, first statement: SELECT the call
ReadCall(p, call_id) ==
    /\ sess[p].pc = "idle"
    /\ IF call_id \notin DOMAIN calls THEN
          /\ Respond([op |-> "get_call", call_id |-> call_id], [code |-> 404])
          /\ UNCHANGED sess
       ELSE
          /\ sess' = [sess EXCEPT ![p] =
                        [@ EXCEPT !.pc = "selectin_transcripts", !.id = call_id,
                                  !.obj = Some([call |-> calls[call_id],
                                                transcripts |-> {},
                                                insights |-> {}])]]
          /\ Respond([op |-> "select_call", session |-> p, call_id |-> call_id],
                     NoResponse)
    /\ UNCHANGED <<calls, nextId, now, transcripts, insights, batches, blobs,
                   nextUuid, jobQueue, hist>>

\* get_with_details, second statement: selectinload(Call.transcripts)
ReadTranscripts(p) ==
    /\ sess[p].pc = "selectin_transcripts"
    /\ \E o \in sess[p].obj :
          sess' = [sess EXCEPT ![p] =
                     [@ EXCEPT !.pc = "selectin_insights",
                               !.obj = Some([o EXCEPT !.transcripts =
                                               RowsOf(transcripts, sess[p].id)])]]
    /\ Respond([op |-> "selectin_transcripts", session |-> p,
                call_id |-> sess[p].id],
               NoResponse)
    /\ UNCHANGED <<calls, nextId, now, transcripts, insights, batches, blobs,
                   nextUuid, jobQueue, hist>>

\* get_with_details, third statement: selectinload(Call.insights); get_call
\* returns the loaded call
ReadInsights(p) ==
    /\ sess[p].pc = "selectin_insights"
    /\ \E o \in sess[p].obj :
          Respond([op |-> "get_call", call_id |-> sess[p].id],
                  [code |-> 200,
                   body |-> [o EXCEPT !.insights = RowsOf(insights, sess[p].id)]])
    /\ sess' = [sess EXCEPT ![p] = IdleSess]
    /\ UNCHANGED <<calls, nextId, now, transcripts, insights, batches, blobs,
                   nextUuid, jobQueue, hist>>

\* transcript_crud.get_by_call / insight_crud.get_by_call: one SELECT
get_by_call(kind, call_id) ==
    /\ Respond([op |-> "get_by_call", kind |-> kind, call_id |-> call_id],
               [code |-> 200,
                rows |-> RowsOf(IF kind = "transcript" THEN transcripts
                                                       ELSE insights, call_id)])
    /\ UNCHANGED <<calls, nextId, now, transcripts, insights, batches, blobs,
                   nextUuid, jobQueue, sess, hist>>

Kinds == {"transcript", "insight"}

\* One call is enough here, with id 1, which is missing until it is uploaded.
NextBulk ==
    \/ nextId = 1 /\ upload_call(<<"a", ".wav">>, 2097152, "ok", "ok", 1)
    \/ \E p \in Procs, kind \in Kinds : BulkAddAll(p, kind, 1, MaxBatchSize)
    \/ \E p \in Procs, failAt \in 0..MaxBatchSize : BulkCommit(p, failAt)
    \/ \E p \in Procs : ReadCall(p, 1)
    \/ \E p \in Procs : ReadTranscripts(p)
    \/ \E p \in Procs : ReadInsights(p)
    \/ \E kind \in Kinds : get_by_call(kind, 1)

SpecBulk == Init /\ [][NextBulk]_vars

\* Of every create_many call of the given kind, the rows hold all of its rows
\* or none
AllOrNone(rows, kind) ==
    \A b \in DOMAIN batches :
        batches[b].kind = kind =>
            LET full == {r \in [call_id : {batches[b].call_id}, batch : {b},
                                idx : 1..batches[b].n] : TRUE}
            IN  rows \cap full = {} \/ full \subseteq rows

\* C8: the rows of one create_many call become visible together or not at
\* all: the tables, every finished read (get_call, get_by_call) and every
\* read in progress hold all rows of a batch or none of them, and a
\* create_many that failed has left none of its rows.
C8_BulkInsertIsAtomic ==
    /\ AllOrNone(transcripts, "transcript")
    /\ AllOrNone(insights, "insight")
    /\ \A b \in DOMAIN batches :
          batches[b].state # "committed" =>
              {r \in transcripts \cup insights : r.batch = b} = {}
    /\ (request.op = "get_by_call" /\ response.code = 200) =>
          AllOrNone(response.rows, request.kind)
    /\ (request.op = "get_call" /\ response.code = 200) =>
          /\ AllOrNone(response.body.transcripts, "transcript")
          /\ AllOrNone(response.body.insights, "insight")
    /\ \A p \in Procs : \A o \in sess[p].obj :
          sess[p].pc \in {"selectin_transcripts", "selectin_insights"} =>
              AllOrNone(o.transcripts, "transcript")

\* One create_many failed at its second row and left nothing; a reader got all
\* rows of a committed batch of two.
C8_Witness ==
    /\ \E b \in DOMAIN batches :
          /\ batches[b].state = "failed"
          /\ batches[b].failAt = 2
          /\ batches[b].call_id \in DOMAIN calls
    /\ request.op = "get_by_call"
    /\ \E b \in DOMAIN batches :
          /\ batches[b].state = "committed"
          /\ batches[b].n = 2
          /\ Cardinality({r \in response.rows : r.batch = b}) = 2

-----------------------------------------------------------------------------
(* SpecDelete: delete_call split at its awaits, two requests side by side *)

\* A delete_call that goes on without looking at what call_crud.get returned
DelGetUnchecked(p, call_id) ==
    /\ sess[p].pc = "idle"
    /\ sess' = [sess EXCEPT ![p] = [@ EXCEPT !.pc = "del_loaded", !.id = call_id,
                                             !.obj = CRUDCall_get(calls, call_id)]]
    /\ Respond([op |-> "delete_call", step |-> "get", session |-> p,
                call_id |-> call_id],
               NoResponse)
    /\ UNCHANGED <<calls, nextId, now, transcripts, insights, batches, blobs,
                   nextUuid, jobQueue, hist>>

\* delete_call up to its 404: call_crud.get in the request's session
DelGet(p, call_id) ==
    LET call == CRUDCall_get(calls, call_id) IN
    /\ sess[p].pc = "idle"
    /\ IF call = None THEN
          /\ Respond([op |-> "delete_call", step |-> "get", session |-> p,
                      call_id |-> call_id],
                     [code |-> 404])
          /\ UNCHANGED sess
       ELSE
          /\ sess' = [sess EXCEPT ![p] = [@ EXCEPT !.pc = "del_loaded",
                                                   !.id = call_id, !.obj = call]]
          /\ Respond([op |-> "delete_call", step |-> "get", session |-> p,
                      call_id |-> call_id],
                     NoResponse)
    /\ UNCHANGED <<calls, nextId, now, transcripts, insights, batches, blobs,
                   nextUuid, jobQueue, hist>>

\* delete_call, "Delete audio file"
DelRemoveBlob(p, remove) ==
    /\ sess[p].pc = "del_loaded"
    /\ \E c \in sess[p].obj :
          /\ blobs' = RemoveBlob(blobs, c.file_path, remove)
          /\ sess' = [sess EXCEPT ![p] = [@ EXCEPT !.pc = "del_blob_done"]]
          /\ Respond([op |-> "delete_call", step |-> "remove", session |-> p,
                      call_id |-> sess[p].id,
                      blob |-> BlobStep(blobs, c.file_path, remove)],
                     NoResponse)
    /\ UNCHANGED <<calls, nextId, now, transcripts, insights, batches, nextUuid,
                   jobQueue, hist>>

\* CRUDCall.delete inside delete_call: session.get answers from the session's
\* identity map, which holds the call since call_crud.get, so the row counts
\* as found whether or not it is still in the table; the result is dropped
\* by delete_call.
CRUDCall_delete_found(cs, identity, id) == identity # None \/ id \in DOMAIN cs

\* delete_call, "Delete DB record" and the response
DelCrudDelete(p, commit) ==
    LET id == sess[p].id IN
    /\ sess[p].pc = "del_blob_done"
    /\ IF CRUDCall_delete_found(calls, sess[p].obj, id) /\ commit = "ok" THEN
          /\ calls' = DeleteCallRow(calls, id)
          /\ transcripts' = CascadeDelete(transcripts, id)
          /\ insights' = CascadeDelete(insights, id)
       ELSE
          UNCHANGED <<calls, transcripts, insights>>
    /\ sess' = [sess EXCEPT ![p] = IdleSess]
    /\ Respond([op |-> "delete_call", step |-> "delete", session |-> p,
                call_id |-> id, commit |-> commit],
               [code |-> DeleteStatus("done", commit)])
    /\ UNCHANGED <<nextId, now, batches, blobs, nextUuid, jobQueue, hist>>

NextDelete ==
    \/ upload_call(<<"a", ".wav">>, 2097152, "ok", "ok", 1)
    \/ \E id \in CallIds : get_call(id)
    \/ \E id \in CallIds : get_call_status(id)
    \/ \E p \in Procs, id \in CallIds : DelGet(p, id)
    \/ \E p \in Procs, remove \in RemoveOutcomes : DelRemoveBlob(p, remove)
    \/ \E p \in Procs, commit \in CommitOutcomes : DelCrudDelete(p, commit)

SpecDelete == Init /\ [][NextDelete]_vars

\* The step is the lookup of a get_call, get_call_status or delete_call request
IsLookup(req) ==
    \/ req.op \in {"get_call", "get_call_status"}
    \/ req.op = "delete_call" /\ req.step = "get"

\* C10: get_call, get_call_status and delete_call for an id that has no Call
\* row end as 404 and change nothing; a 404 is given only for such an id, and
\* delete_call reports success only to a request whose lookup found the row,
\* also with two delete_call requests for the same id under way.
C10_AbsentCallIsNotFound ==
    [][/\ (IsLookup(request') /\ request'.call_id \notin DOMAIN calls) =>
              /\ response'.code = 404
              /\ UNCHANGED <<calls, transcripts, insights, blobs, jobQueue>>
       /\ response'.code = 404 =>
              /\ IsLookup(request')
              /\ request'.call_id \notin DOMAIN calls
       /\ (request'.op = "delete_call" /\ response'.code = 200) =>
              /\ sess[request'.session].pc = "del_blob_done"
              /\ sess[request'.session].id = request'.call_id
              /\ sess[request'.session].obj # None
              /\ request'.call_id \notin DOMAIN calls'
      ]_vars

\* The second of two delete_call requests for a call was told 404: the call
\* had existed and the first request has deleted it.
C10_Witness ==
    /\ request.op = "delete_call"
    /\ response.code = 404
    /\ request.call_id < nextId
    /\ request.call_id \notin DOMAIN calls

-----------------------------------------------------------------------------
(* SpecStore: uploads and deletions whose file operations succeed and whose
   database commit may fail *)

NextStore ==
    \/ \E commit \in CommitOutcomes :
          upload_call(<<"a", ".wav">>, 2097152, "ok", commit, 1)
    \/ \E id \in CallIds : get_call(id)
    \/ \E id \in CallIds, commit \in CommitOutcomes :
          delete_call(id, "ok", commit)

SpecStore == Init /\ [][NextStore]_vars

\* The file paths the Call rows reference
ReferencedFiles == {calls[i].file_path : i \in DOMAIN calls}

\* C11: after any sequence of uploads and deletes in which the database write
\* may fail, an audio file exists in the upload store if and only if a Call
\* row references it: no file without a row, no row without its file.
C11_BlobsMatchCalls == blobs = ReferencedFiles
====
